---- MODULE Spec2Model ----
(***************************************************************************)
(* A model of src/Queue/Queue.js: a FIFO queue kept in a JavaScript array  *)
(* (this.items).  The arrays live in a heap, so that two Queue objects can *)
(* be told apart from two names of one array; the elements are JavaScript  *)
(* values with the identity, the properties and the truthiness the code    *)
(* reads.  Every method is one operator, computed the way the code         *)
(* computes it, and one action that applies it to a queue.                 *)
(***************************************************************************)
EXTENDS Integers, Sequences, FiniteSets

VARIABLES
    heap,       \* the arrays: array reference -> its contents
    queues,     \* the Queue objects: name -> the reference in this.items (0: no such object)
    pc,         \* the caller: "idle", or "returned" right after a call
    op,         \* the method of the last call
    tgt,        \* the Queue object it was called on
    args,       \* the arguments of the call
    pre,        \* the contents of the target's items before the call
    ret,        \* what the call returned (or that it threw)
    enqueued,   \* history: the items enqueued so far, in call order
    deqCount,   \* history: the number of dequeue() calls made on a non-empty queue
    tracking    \* history is kept: the queue was made empty and only enqueue() and dequeue() were called

vars == <<heap, queues, pc, op, tgt, args, pre, ret, enqueued, deqCount, tracking>>

(***************************************************************************)
(* Bounds of the model.                                                    *)
(***************************************************************************)
MaxLen == 3         \* enqueue and multiEnqueue stop growing a queue at this length
MaxHist == 4        \* enqueue calls recorded in the history
MaxCloneLen == 2    \* the same, for a queue and its kept clone (SpecClone)

Max(a, b) == IF a > b THEN a ELSE b
Min(a, b) == IF a < b THEN a ELSE b

RECURSIVE SetMax(_)
SetMax(S) == IF S = {} THEN 0
             ELSE LET x == CHOOSE y \in S : TRUE IN Max(x, SetMax(S \ {x}))

(***************************************************************************)
(* JavaScript values stored in a queue.  A number is compared by value, an *)
(* object by identity (id).  caps are the methods an object exposes, val   *)
(* its content, via the method that made it ("none": made by the caller).  *)
(* undefined stands for both undefined and null: reading a property of     *)
(* either throws a TypeError.                                              *)
(***************************************************************************)
Undefined == [kind |-> "undefined", val |-> 0, id |-> 0, caps |-> {}, via |-> "none"]
Num(v) == [kind |-> "number", val |-> v, id |-> 0, caps |-> {}, via |-> "none"]
Obj(i, v, c) == [kind |-> "object", val |-> v, id |-> i, caps |-> c, via |-> "none"]

CloneOnly == Obj(1, 1, {"clone"})
CloneBoth == Obj(2, 2, {"clone", "cloneDistinct"})

\* the values a caller passes in
Values == {Num(1), Num(2), Undefined, CloneOnly, CloneBoth}
CloneValues == {Num(1), Undefined, CloneOnly}
\* the values of an argument list
ListValues == {Num(2), Undefined, CloneOnly}

\* it === item
StrictEq(a, b) ==
    /\ a.kind = b.kind
    /\ CASE a.kind = "undefined" -> TRUE
         [] a.kind = "number" -> a.val = b.val
         [] OTHER -> a.id = b.id

\* reading e.name throws a TypeError
ReadThrows(e) == e.kind = "undefined"

\* the truthiness of e.name, for e that is neither undefined nor null
HasMethod(e, name) == e.kind = "object" /\ name \in e.caps

\* e.clone(): an object of its own, with e's content (as Queue.prototype.clone returns)
ElemClone(e, nid) == [e EXCEPT !.id = nid, !.via = "clone"]

\* e.cloneDistinct(): likewise
ElemCloneDistinct(e, nid) == [e EXCEPT !.id = nid, !.via = "cloneDistinct"]

Ids(s) == {s[i].id : i \in 1..Len(s)}

(***************************************************************************)
(* Callbacks.  "none" is no callback passed (undefined, falsy).            *)
(***************************************************************************)
Callbacks == {"none", "isNumber", "isObject"}
Transforms == {"same", "swap", "toOne", "toUndefined"}

UserCallback(cb, it) ==
    CASE cb = "isNumber" -> it.kind = "number"
      [] cb = "isObject" -> it.kind = "object"
      [] OTHER -> FALSE

\* callback = callback || function (it) { return it === item; }
Callback(item, cb, it) ==
    IF cb = "none" THEN StrictEq(it, item) ELSE UserCallback(cb, it)

Transform(f, it) ==
    CASE f = "same" -> it
      [] f = "swap" -> IF it.kind = "number" THEN Num(3 - it.val) ELSE it
      [] f = "toOne" -> Num(1)
      [] OTHER -> Undefined

(***************************************************************************)
(* What a call returns.                                                    *)
(***************************************************************************)
RetVoid == [kind |-> "void", elem |-> Undefined, seq |-> <<>>, num |-> 0, flag |-> FALSE]
RetElem(e) == [RetVoid EXCEPT !.kind = "value", !.elem = e]
RetArray(s) == [RetVoid EXCEPT !.kind = "array", !.seq = s]
RetQueue(s) == [RetVoid EXCEPT !.kind = "queue", !.seq = s]
RetNum(n) == [RetVoid EXCEPT !.kind = "number", !.num = n]
RetBool(b) == [RetVoid EXCEPT !.kind = "boolean", !.flag = b]
RetThrow == [RetVoid EXCEPT !.kind = "throw"]

\* the outcome of a method: the array's contents, the return, and whether
\* this.items was assigned a new array
Outcome(s, r) == [items |-> s, ret |-> r, realloc |-> FALSE]

(***************************************************************************)
(* Array.prototype.splice(start, deleteCount), as ECMAScript defines it.   *)
(***************************************************************************)
\* variant: a negative start is clamped to 0
ActualStartClamped(len, start) ==
    IF start < 0 THEN 0 ELSE Min(start, len)

ActualStart(len, start) ==
    IF start < 0 THEN Max(len + start, 0) ELSE Min(start, len)

ActualDeleteCount(len, start, deleteCount) ==
    Min(Max(deleteCount, 0), len - ActualStart(len, start))

Splice(s, start, deleteCount) ==
    LET len == Len(s)
        from == ActualStart(len, start)
        n == ActualDeleteCount(len, start, deleteCount)
    IN  [items |-> SubSeq(s, 1, from) \o SubSeq(s, from + n + 1, len),
         removed |-> SubSeq(s, from + 1, from + n)]

(***************************************************************************)
(* The methods, on the contents s of this.items.                           *)
(***************************************************************************)
\* variant: the item is put at the head (unshift for push)
enqueueAtHead(s, item) == Outcome(<<item>> \o s, RetVoid)

enqueue(s, item) == Outcome(Append(s, item), RetVoid)

RECURSIVE multiEnqueueLoop(_, _, _)
multiEnqueueLoop(s, list, i) ==
    IF i < Len(list) THEN multiEnqueueLoop(Append(s, list[i + 1]), list, i + 1) ELSE s

\* variant: the loop starts at index 1
multiEnqueueFromOne(s, list) == Outcome(multiEnqueueLoop(s, list, 1), RetVoid)

multiEnqueue(s, list) == Outcome(multiEnqueueLoop(s, list, 0), RetVoid)

\* new Queue(args...)
Queue(list) == multiEnqueue(<<>>, list).items

\* variant: the tail is taken (splice(-1, 1), a stack's pop)
dequeueTail(s) ==
    IF Len(s) = 0 THEN Outcome(s, RetElem(Undefined))
    ELSE LET sp == Splice(s, 0 - 1, 1) IN Outcome(sp.items, RetElem(sp.removed[1]))

dequeue(s) ==
    IF Len(s) = 0 THEN Outcome(s, RetElem(Undefined))
    ELSE LET sp == Splice(s, 0, 1) IN Outcome(sp.items, RetElem(sp.removed[1]))

\* variant: the last times items are taken (splice(-times, times))
multiDequeueTail(s, times) ==
    LET sp == Splice(s, 0 - times, times) IN Outcome(sp.items, RetArray(sp.removed))

multiDequeue(s, times) ==
    LET sp == Splice(s, 0, times) IN Outcome(sp.items, RetArray(sp.removed))

\* variant: every length that is not positive counts as omitted
removeLengthPositive(hasLength, length) ==
    IF ~hasLength \/ length <= 0 THEN 1 ELSE length

\* length = length || 1: an omitted length and a length of 0 are both falsy
removeLength(hasLength, length) ==
    IF ~hasLength \/ length = 0 THEN 1 ELSE length

remove(s, index, hasLength, length) ==
    Outcome(Splice(s, index, removeLength(hasLength, length)).items, RetVoid)

\* variant: an index past the tail is clamped to the tail
getItemClamped(s, index) ==
    IF index < 0 \/ Len(s) = 0 THEN Outcome(s, RetElem(Undefined))
    ELSE Outcome(s, RetElem(s[Min(index, Len(s) - 1) + 1]))

getItem(s, index) ==
    IF index < 0 \/ index > Len(s) - 1 THEN Outcome(s, RetElem(Undefined))
    ELSE Outcome(s, RetElem(s[index + 1]))

\* variant: the tail is read
peekTail(s) ==
    IF Len(s) # 0 THEN Outcome(s, RetElem(s[Len(s)])) ELSE Outcome(s, RetElem(Undefined))

peek(s) ==
    IF Len(s) # 0 THEN Outcome(s, RetElem(s[1])) ELSE Outcome(s, RetElem(Undefined))

\* variant: the new array is not assigned to this.items
clearLocal(s) == [items |-> s, ret |-> RetVoid, realloc |-> TRUE]

clear(s) == [items |-> <<>>, ret |-> RetVoid, realloc |-> TRUE]

RECURSIVE containsLoop(_, _, _, _)
containsLoop(s, item, cb, i) ==
    IF i < Len(s) /\ ~Callback(item, cb, s[i + 1]) THEN containsLoop(s, item, cb, i + 1)
    ELSE i

\* variant: the last element is not looked at
containsButLast(s, item, cb) ==
    Outcome(s, RetBool(containsLoop(s, item, cb, 0) < Len(s) - 1))

contains(s, item, cb) == Outcome(s, RetBool(containsLoop(s, item, cb, 0) < Len(s)))

RECURSIVE executeLoop(_, _, _)
executeLoop(s, f, i) ==
    IF i < Len(s) THEN executeLoop([s EXCEPT ![i + 1] = Transform(f, s[i + 1])], f, i + 1)
    ELSE s

\* variant: the loop starts at index 1
executeFromOne(s, f) == Outcome(executeLoop(s, f, 1), RetVoid)

execute(s, f) == Outcome(executeLoop(s, f, 0), RetVoid)

getLength(s) == Outcome(s, RetNum(Len(s)))

isEmpty(s) == Outcome(s, RetBool(Len(s) = 0))

RECURSIVE filterLoop(_, _, _, _)
filterLoop(s, cb, i, result) ==
    IF i < Len(s)
    THEN filterLoop(s, cb, i + 1,
                    IF UserCallback(cb, s[i + 1]) THEN Append(result, s[i + 1]) ELSE result)
    ELSE result

\* variant: the queue is drained while it is filtered
filterDraining(s, cb) == Outcome(<<>>, RetArray(filterLoop(s, cb, 0, <<>>)))

filter(s, cb) == Outcome(s, RetArray(filterLoop(s, cb, 0, <<>>)))

RECURSIVE indexOfLoop(_, _, _, _)
indexOfLoop(s, item, cb, i) ==
    IF i < Len(s)
    THEN IF Callback(item, cb, s[i + 1]) THEN i ELSE indexOfLoop(s, item, cb, i + 1)
    ELSE -1

indexOf(s, item, cb) == Outcome(s, RetNum(indexOfLoop(s, item, cb, 0)))

RECURSIVE lastIndexOfLoop(_, _, _, _)
lastIndexOfLoop(s, item, cb, i) ==
    IF i > -1
    THEN IF Callback(item, cb, s[i + 1]) THEN i ELSE lastIndexOfLoop(s, item, cb, i - 1)
    ELSE -1

\* variant: the search runs from the head
lastIndexOfFromHead(s, item, cb) == Outcome(s, RetNum(indexOfLoop(s, item, cb, 0)))

lastIndexOf(s, item, cb) == Outcome(s, RetNum(lastIndexOfLoop(s, item, cb, Len(s) - 1)))

RECURSIVE allIndexesOfLoop(_, _, _, _, _)
allIndexesOfLoop(s, item, cb, i, indexes) ==
    IF i < Len(s)
    THEN allIndexesOfLoop(s, item, cb, i + 1,
                          IF Callback(item, cb, s[i + 1]) THEN Append(indexes, i) ELSE indexes)
    ELSE indexes

\* the indexes are returned as numbers
allIndexesOf(s, item, cb) ==
    LET ix == allIndexesOfLoop(s, item, cb, 0, <<>>)
    IN  Outcome(s, RetArray([k \in 1..Len(ix) |-> Num(ix[k])]))

\* clone(): queue is the contents of the new Queue, nid the identity of the
\* next object an element's clone() makes
RECURSIVE cloneLoop(_, _, _, _)
cloneLoop(s, i, queue, nid) ==
    IF i < Len(s)
    THEN IF ReadThrows(s[i + 1]) THEN RetThrow
         ELSE IF HasMethod(s[i + 1], "clone")
              THEN cloneLoop(s, i + 1, enqueue(queue, ElemClone(s[i + 1], nid)).items, nid + 1)
              ELSE cloneLoop(s, i + 1, enqueue(queue, s[i + 1]).items, nid)
    ELSE RetQueue(queue)

clone(s, nid) == Outcome(s, cloneLoop(s, 0, Queue(<<>>), nid))

RECURSIVE cloneDistinctLoop(_, _, _, _)
cloneDistinctLoop(s, i, queue, nid) ==
    IF i < Len(s)
    THEN IF ~contains(queue, s[i + 1], "none").ret.flag
         THEN IF ReadThrows(s[i + 1]) THEN RetThrow
              ELSE IF HasMethod(s[i + 1], "cloneDistinct")
                   THEN cloneDistinctLoop(s, i + 1,
                            enqueue(queue, ElemCloneDistinct(s[i + 1], nid)).items, nid + 1)
                   ELSE IF HasMethod(s[i + 1], "clone")
                        THEN cloneDistinctLoop(s, i + 1,
                                 enqueue(queue, ElemClone(s[i + 1], nid)).items, nid + 1)
                        ELSE cloneDistinctLoop(s, i + 1, enqueue(queue, s[i + 1]).items, nid)
         ELSE cloneDistinctLoop(s, i + 1, queue, nid)
    ELSE RetQueue(queue)

cloneDistinct(s, nid) == Outcome(s, cloneDistinctLoop(s, 0, Queue(<<>>), nid))

(***************************************************************************)
(* The heap.  Two Queue objects can exist: "orig", which the constructor   *)
(* makes, and "copy", which a kept clone() makes.  queues[q] = 0 says that *)
(* q does not exist.  An array no Queue refers to any more is dropped (its *)
(* slot reads <<>>), and a new array takes the first free slot.            *)
(***************************************************************************)
ArrRefs == 1..2
QueueNames == {"orig", "copy"}
Other(t) == IF t = "orig" THEN "copy" ELSE "orig"

Exists(t) == queues[t] # 0
Items(t) == heap[queues[t]]

\* a new array for queue t: [] at lines 18 and 106
NewArray(q, t) == CHOOSE a \in ArrRefs : a # q[Other(t)] /\ \A b \in ArrRefs : (b # q[Other(t)] => a <= b)

\* this.items = [] in the constructor: the array of a new Queue named t
QueueItems(q, t) == NewArray(q, t)

\* the heap with array r holding s, and unreferenced arrays dropped
Store(h, q, r, s) ==
    [a \in ArrRefs |-> IF a = r THEN s
                       ELSE IF \E n \in QueueNames : q[n] = a THEN h[a] ELSE <<>>]

\* the identity of the next object made, the queues in keep staying alive
FreshId(h, q, keep) ==
    1 + SetMax({v.id : v \in Values} \cup UNION {Ids(h[q[n]]) : n \in {m \in keep : q[m] # 0}})

(***************************************************************************)
(* Arguments of a call.                                                    *)
(***************************************************************************)
NoArgs == [item |-> Undefined, index |-> 0, hasLength |-> FALSE, length |-> 0,
           times |-> 0, cb |-> "none", list |-> <<>>]

ArgLists(V, n) == UNION {[1..k -> V] : k \in 0..n}
Indexes(cap) == (0 - cap - 1)..cap
Lengths(cap) == (0 - 1)..(cap + 1)

(***************************************************************************)
(* A call of method name on queue t with arguments a and outcome out.  The *)
(* history, where it is kept, follows a run of enqueue() and dequeue()     *)
(* calls from an empty queue, and ends with the call of another method.    *)
(***************************************************************************)
Call(t, name, a, out) ==
    /\ pc = "idle"
    /\ Exists(t)
    /\ IF out.realloc
       THEN LET r == NewArray(queues, t)
                q == [queues EXCEPT ![t] = r]
            IN  /\ queues' = q
                /\ heap' = Store(heap, q, r, out.items)
       ELSE /\ queues' = queues
            /\ heap' = Store(heap, queues, queues[t], out.items)
    /\ pc' = "returned"
    /\ op' = name
    /\ tgt' = t
    /\ args' = a
    /\ pre' = Items(t)
    /\ ret' = out.ret
    /\ tracking' = (tracking /\ name \in {"enqueue", "dequeue"})
    /\ enqueued' = IF ~tracking' THEN <<>>
                   ELSE IF name = "enqueue" THEN Append(enqueued, a.item) ELSE enqueued
    /\ deqCount' = IF ~tracking' THEN 0
                   ELSE IF name = "dequeue" /\ Len(Items(t)) # 0 THEN deqCount + 1 ELSE deqCount

Enqueue(t, cap, item) ==
    /\ Exists(t) /\ Len(Items(t)) < cap
    /\ tracking => Len(enqueued) < MaxHist
    /\ Call(t, "enqueue", [NoArgs EXCEPT !.item = item], enqueue(Items(t), item))

MultiEnqueue(t, cap, list) ==
    /\ Exists(t) /\ Len(Items(t)) + Len(list) <= cap
    /\ Call(t, "multiEnqueue", [NoArgs EXCEPT !.list = list], multiEnqueue(Items(t), list))

Dequeue(t) ==
    /\ Exists(t)
    /\ Call(t, "dequeue", NoArgs, dequeue(Items(t)))

MultiDequeue(t, times) ==
    /\ Exists(t)
    /\ Call(t, "multiDequeue", [NoArgs EXCEPT !.times = times], multiDequeue(Items(t), times))

Remove(t, index, hasLength, length) ==
    /\ Exists(t)
    /\ Call(t, "remove",
            [NoArgs EXCEPT !.index = index, !.hasLength = hasLength, !.length = length],
            remove(Items(t), index, hasLength, length))

GetItem(t, index) ==
    /\ Exists(t)
    /\ Call(t, "getItem", [NoArgs EXCEPT !.index = index], getItem(Items(t), index))

Peek(t) ==
    /\ Exists(t)
    /\ Call(t, "peek", NoArgs, peek(Items(t)))

Clear(t) ==
    /\ Exists(t)
    /\ Call(t, "clear", NoArgs, clear(Items(t)))

Contains(t, item, cb) ==
    /\ Exists(t)
    /\ Call(t, "contains", [NoArgs EXCEPT !.item = item, !.cb = cb], contains(Items(t), item, cb))

Execute(t, f) ==
    /\ Exists(t)
    /\ Call(t, "execute", [NoArgs EXCEPT !.cb = f], execute(Items(t), f))

GetLength(t) ==
    /\ Exists(t)
    /\ Call(t, "getLength", NoArgs, getLength(Items(t)))

IsEmpty(t) ==
    /\ Exists(t)
    /\ Call(t, "isEmpty", NoArgs, isEmpty(Items(t)))

Filter(t, cb) ==
    /\ Exists(t)
    /\ Call(t, "filter", [NoArgs EXCEPT !.cb = cb], filter(Items(t), cb))

IndexOf(t, item, cb) ==
    /\ Exists(t)
    /\ Call(t, "indexOf", [NoArgs EXCEPT !.item = item, !.cb = cb], indexOf(Items(t), item, cb))

LastIndexOf(t, item, cb) ==
    /\ Exists(t)
    /\ Call(t, "lastIndexOf", [NoArgs EXCEPT !.item = item, !.cb = cb],
            lastIndexOf(Items(t), item, cb))

AllIndexesOf(t, item, cb) ==
    /\ Exists(t)
    /\ Call(t, "allIndexesOf", [NoArgs EXCEPT !.item = item, !.cb = cb],
            allIndexesOf(Items(t), item, cb))

\* t.clone(), the result used and dropped by the caller
Clone(t) ==
    /\ Exists(t)
    /\ Call(t, "clone", NoArgs, clone(Items(t), FreshId(heap, queues, QueueNames)))

CloneDistinct(t) ==
    /\ Exists(t)
    /\ Call(t, "cloneDistinct", NoArgs,
            cloneDistinct(Items(t), FreshId(heap, queues, QueueNames)))

\* copy = orig.clone(): the result is kept as the Queue "copy" (a copy kept
\* before is dropped); nothing is assigned when clone() throws
CloneKept ==
    /\ pc = "idle"
    /\ Exists("orig")
    /\ LET out == clone(Items("orig"), FreshId(heap, queues, {"orig"}))
           r == QueueItems([queues EXCEPT !["copy"] = 0], "copy")
           q == [queues EXCEPT !["copy"] = r]
       IN  /\ IF out.ret.kind = "throw"
              THEN UNCHANGED <<heap, queues>>
              ELSE /\ queues' = q
                   /\ heap' = Store(heap, q, r, out.ret.seq)
           /\ ret' = out.ret
    /\ pc' = "returned"
    /\ op' = "clone"
    /\ tgt' = "orig"
    /\ args' = NoArgs
    /\ pre' = Items("orig")
    /\ tracking' = FALSE
    /\ enqueued' = <<>>
    /\ deqCount' = 0

\* the caller goes on, and the result of the last call is gone
Continue ==
    /\ pc = "returned"
    /\ pc' = "idle"
    /\ op' = "none"
    /\ tgt' = "orig"
    /\ args' = NoArgs
    /\ pre' = <<>>
    /\ ret' = RetVoid
    /\ UNCHANGED <<heap, queues, enqueued, deqCount, tracking>>

\* the item and the callback of a search: the item is read only when no
\* callback is passed
SearchArgs(V) == {<<item, cb>> \in V \X Callbacks : cb = "none" \/ item = Undefined}

(***************************************************************************)
(* The state after orig = new Queue(list...).                              *)
(***************************************************************************)
Construct(lists, track) ==
    \E list \in lists :
        /\ queues = [n \in QueueNames |-> IF n = "orig" THEN QueueItems([m \in QueueNames |-> 0], n) ELSE 0]
        /\ heap = Store([a \in ArrRefs |-> <<>>], queues, queues["orig"], Queue(list))
        /\ pc = "returned"
        /\ op = "Queue"
        /\ tgt = "orig"
        /\ args = [NoArgs EXCEPT !.list = list]
        /\ pre = <<>>
        /\ ret = RetVoid
        /\ tracking = (track /\ Len(list) = 0)
        /\ enqueued = <<>>
        /\ deqCount = 0

Init == Construct(ArgLists(ListValues, MaxLen - 1), FALSE)

Next ==
    \/ \E item \in Values : Enqueue("orig", MaxLen, item)
    \/ \E list \in ArgLists(ListValues, MaxLen - 1) : MultiEnqueue("orig", MaxLen, list)
    \/ Dequeue("orig")
    \/ \E times \in Lengths(MaxLen) : MultiDequeue("orig", times)
    \/ \E index \in Indexes(MaxLen) : Remove("orig", index, FALSE, 0)
    \/ \E index \in Indexes(MaxLen), length \in Lengths(MaxLen) : Remove("orig", index, TRUE, length)
    \/ \E index \in Indexes(MaxLen) : GetItem("orig", index)
    \/ Peek("orig")
    \/ Clear("orig")
    \/ \E a \in SearchArgs(Values) : Contains("orig", a[1], a[2])
    \/ \E f \in Transforms : Execute("orig", f)
    \/ GetLength("orig")
    \/ IsEmpty("orig")
    \/ \E cb \in Callbacks \ {"none"} : Filter("orig", cb)
    \/ \E a \in SearchArgs(Values) : IndexOf("orig", a[1], a[2])
    \/ \E a \in SearchArgs(Values) : LastIndexOf("orig", a[1], a[2])
    \/ \E a \in SearchArgs(Values) : AllIndexesOf("orig", a[1], a[2])
    \/ Clone("orig")
    \/ CloneDistinct("orig")
    \/ Continue

Spec == Init /\ [][Next]_vars

(***************************************************************************)
(* Two queues: orig and a kept clone of it, each mutated at will.          *)
(***************************************************************************)
InitClone == Construct(ArgLists(CloneValues, MaxCloneLen), FALSE)

NextClone ==
    \/ CloneKept
    \/ \E t \in QueueNames :
        \/ \E item \in CloneValues : Enqueue(t, MaxCloneLen, item)
        \/ Dequeue(t)
        \/ \E index \in Indexes(MaxCloneLen) : Remove(t, index, FALSE, 0)
        \/ Clear(t)
        \/ \E f \in Transforms : Execute(t, f)
    \/ Continue

SpecClone == InitClone /\ [][NextClone]_vars

(***************************************************************************)
(* An empty queue, then enqueue() and dequeue() calls in any order, with   *)
(* the history kept.                                                       *)
(***************************************************************************)
InitFifo == Construct({<<>>}, TRUE)

NextFifo ==
    \/ \E item \in Values : Enqueue("orig", MaxLen, item)
    \/ Dequeue("orig")
    \/ Continue

SpecFifo == InitFifo /\ [][NextFifo]_vars

(***************************************************************************)
(* Properties.                                                             *)
(***************************************************************************)
Returned(name) == pc = "returned" /\ op = name
Now == Items(tgt)
Distinct(s) == {s[i] : i \in 1..Len(s)}

\* C1 (FIFO law): in a run of enqueue() and dequeue() calls from an empty
\* queue, the k-th dequeue() called on a non-empty queue returns the k-th
\* item enqueued, and the queue always holds the enqueued items minus the
\* dequeued prefix, in insertion order.
FifoLaw ==
    tracking =>
        /\ deqCount <= Len(enqueued)
        /\ Items("orig") = SubSeq(enqueued, deqCount + 1, Len(enqueued))
        /\ (Returned("dequeue") /\ Len(pre) # 0) => ret = RetElem(enqueued[deqCount])

FifoWitness ==
    /\ tracking /\ Returned("dequeue") /\ Len(pre) = 2
    /\ deqCount = 3 /\ Len(enqueued) = 4
    /\ enqueued[3] # enqueued[4] /\ enqueued[1] # enqueued[3]

\* C2 as stated: remove(index, length) with a negative index or with
\* index >= the current length leaves the queue as it was.
RemoveOutOfRangeIsNoOp ==
    (Returned("remove") /\ (args.index < 0 \/ args.index >= Len(pre))) => Now = pre

\* C2 as amended: remove(index, length) with index >= the current length
\* leaves the queue as it was; with a negative index it does what
\* remove(max(n + index, 0), length) does on the queue of length n.
RemoveIndexRule ==
    Returned("remove") =>
        /\ args.index >= Len(pre) => Now = pre
        /\ args.index < 0 =>
               Now = remove(pre, Max(Len(pre) + args.index, 0), args.hasLength, args.length).items

RemoveIndexWitness ==
    /\ Returned("remove") /\ args.index = 0 - 1 /\ ~args.hasLength
    /\ Len(pre) = 3 /\ Now = SubSeq(pre, 1, 2)

\* C3: for 0 <= index < n and a supplied length >= 0, remove(index, length)
\* removes exactly min(length, n - index) elements, those from position
\* index on, and keeps the others in order; with no length it removes one.
RemoveRemovesRange ==
    (/\ Returned("remove")
     /\ 0 <= args.index /\ args.index < Len(pre)
     /\ args.hasLength => args.length >= 0) =>
        LET n == Len(pre)
            k == IF args.hasLength THEN Min(args.length, n - args.index) ELSE 1
        IN  Now = SubSeq(pre, 1, args.index) \o SubSeq(pre, args.index + k + 1, n)

\* C4: no call throws.
NoCallThrows == ret.kind # "throw"

RECURSIVE RepeatDequeue(_, _, _)
RepeatDequeue(s, n, removed) ==
    IF n = 0 THEN [items |-> s, removed |-> removed]
    ELSE RepeatDequeue(dequeue(s).items, n - 1,
                       IF Len(s) # 0 THEN Append(removed, dequeue(s).ret.elem) ELSE removed)

HasUndefined(s) == \E i \in 1..Len(s) : s[i].kind = "undefined"

\* C7: cloneDistinct() returns one entry for each distinct element of the
\* queue, also when the elements expose clone or cloneDistinct.  (Stated
\* for the queues that hold no undefined, on which the call returns.)
CloneDistinctDeduplicates ==
    (Returned("cloneDistinct") /\ ~HasUndefined(pre)) =>
        /\ ret.kind = "queue"
        /\ Len(ret.seq) = Cardinality(Distinct(pre))

\* e is what clone() makes of d: d itself, or d's own clone when d exposes clone
IsCloneOf(e, d, old) ==
    IF HasMethod(d, "clone")
    THEN e = [d EXCEPT !.id = e.id, !.via = "clone"] /\ e.id \notin old
    ELSE e = d

\* C8, first half: clone() returns a new queue of the same length with the
\* same elements in the same order, each replaced by its own clone when it
\* exposes clone.
CloneReturnsCopy ==
    Returned("clone") =>
        /\ ret.kind = "queue"
        /\ Len(ret.seq) = Len(pre)
        /\ \A i \in 1..Len(pre) : IsCloneOf(ret.seq[i], pre[i], Ids(pre))

\* C8, second half: the clone and the original share no array, and a call
\* on one of them leaves the contents of the other as they were.
CloneSharesNothing == (Exists("orig") /\ Exists("copy")) => queues["orig"] # queues["copy"]

CloneIndependent ==
    [][(pc = "idle" /\ Exists("copy") /\ op' # "clone") =>
          LET o == Other(tgt') IN heap'[queues'[o]] = heap[queues[o]]]_vars

\* a call on the clone, made while the original holds elements
CloneKeptWitness ==
    /\ Returned("enqueue") /\ tgt = "copy"
    /\ Len(Items("orig")) = 2 /\ Len(Items("copy")) = 1

\* C9 (absence): dequeue() and peek() on an empty queue return undefined
\* and leave it empty; getItem(index) returns undefined for index < 0 and
\* for index >= length, and the element at index otherwise; the queue is
\* left as it was on the absent path.
AbsencePolicy ==
    /\ (Returned("dequeue") /\ Len(pre) = 0) => (ret = RetElem(Undefined) /\ Now = <<>>)
    /\ (Returned("peek") /\ Len(pre) = 0) => (ret = RetElem(Undefined) /\ Now = <<>>)
    /\ Returned("getItem") =>
           IF args.index < 0 \/ args.index >= Len(pre)
           THEN ret = RetElem(Undefined) /\ Now = pre
           ELSE ret = RetElem(pre[args.index + 1])

AbsenceWitness ==
    /\ Returned("getItem") /\ args.index = Len(pre) /\ Len(pre) = 2
    /\ pre[2].kind = "number" /\ ret = RetElem(Undefined)

\* C10: on a non-empty queue, dequeue() returns what peek() called right
\* before it returns, the element at index 0; peek() leaves the length and
\* the contents as they were.
PeekThenDequeue ==
    /\ (Returned("dequeue") /\ Len(pre) # 0) => (ret = peek(pre).ret /\ ret = RetElem(pre[1]))
    /\ Returned("peek") => (Now = pre /\ peek(Now) = peek(pre))
    /\ (Returned("peek") /\ Len(pre) # 0) => (ret = dequeue(pre).ret /\ ret = RetElem(pre[1]))

PeekThenDequeueWitness ==
    /\ Returned("peek") /\ Len(pre) = 3
    /\ pre[1] # pre[2] /\ pre[1] # pre[3] /\ ret = RetElem(pre[1])

\* C11: remove(index, length) with a negative length leaves the queue as
\* it was, for every index, and does not throw.
RemoveNegativeLength ==
    (Returned("remove") /\ args.hasLength /\ args.length < 0) =>
        (Now = pre /\ ret.kind # "throw")

RemoveNegativeLengthWitness ==
    /\ Returned("remove") /\ args.hasLength /\ args.length < 0
    /\ args.index = 1 /\ Len(pre) = 3

\* the indexes of s whose element satisfies the predicate of a search
Satisfying(s, item, cb) == {i \in 0..(Len(s) - 1) : Callback(item, cb, s[i + 1])}

\* C12: indexOf returns the smallest index whose element satisfies the
\* predicate (default: === item), lastIndexOf the largest, both -1 exactly
\* when there is none; allIndexesOf returns the satisfying indexes, all of
\* them, in ascending order.
SearchIsExact ==
    LET sat == Satisfying(pre, args.item, args.cb) IN
    /\ Returned("indexOf") =>
           IF sat = {} THEN ret = RetNum(0 - 1)
           ELSE ret.num \in sat /\ \A i \in sat : ret.num <= i
    /\ Returned("lastIndexOf") =>
           IF sat = {} THEN ret = RetNum(0 - 1)
           ELSE ret.num \in sat /\ \A i \in sat : ret.num >= i
    /\ Returned("allIndexesOf") =>
           /\ ret.kind = "array"
           /\ {ret.seq[k].val : k \in 1..Len(ret.seq)} = sat
           /\ \A k \in 1..Len(ret.seq) : ret.seq[k].kind = "number"
           /\ \A k \in 1..(Len(ret.seq) - 1) : ret.seq[k].val < ret.seq[k + 1].val

SearchWitness ==
    /\ Returned("lastIndexOf") /\ args.cb = "none" /\ args.item = Num(1)
    /\ pre = <<Num(1), Num(1), Num(2)>> /\ ret = RetNum(1)

\* C13: contains(item, callback) is true exactly when some element
\* satisfies the predicate (default: === item), that is, exactly when
\* indexOf with the same arguments is not -1.
ContainsIffSatisfied ==
    /\ Returned("contains") =>
           /\ ret.kind = "boolean"
           /\ ret.flag = (Satisfying(pre, args.item, args.cb) # {})
           /\ ret.flag = (indexOf(pre, args.item, args.cb).ret.num # 0 - 1)
    /\ Returned("indexOf") =>
           (ret.num # 0 - 1) = contains(pre, args.item, args.cb).ret.flag

ContainsWitness ==
    /\ Returned("contains") /\ args.cb = "none" /\ args.item = CloneBoth
    /\ Len(pre) = 3 /\ pre[3] = CloneBoth /\ pre[1] = CloneOnly /\ pre[2] = Num(2)
    /\ ret = RetBool(TRUE)

ConstructAndMultiEnqueue ==
    /\ Returned("Queue") => Now = args.list
    /\ Returned("multiEnqueue") =>
           /\ Len(Now) = Len(pre) + Len(args.list)
           /\ \A i \in 1..Len(pre) : Now[i] = pre[i]
           /\ \A k \in 1..Len(args.list) : Now[Len(pre) + k] = args.list[k]
           /\ Len(args.list) = 0 => Now = pre

MultiEnqueueWitness ==
    /\ Returned("multiEnqueue") /\ Len(pre) = 1 /\ Len(args.list) = 2
    /\ args.list[1] # args.list[2] /\ pre[1] # args.list[1]

\* C16: in every state isEmpty() is true exactly when getLength() is 0;
\* after clear() getLength() is 0 and isEmpty() is true.
EmptyIffZeroLength ==
    /\ \A t \in {n \in QueueNames : Exists(n)} :
           isEmpty(Items(t)).ret.flag = (getLength(Items(t)).ret.num = 0)
    /\ Returned("isEmpty") => (ret.kind = "boolean" /\ ret.flag = (getLength(pre).ret.num = 0))
    /\ Returned("getLength") => (ret.kind = "number" /\ (ret.num = 0) = isEmpty(pre).ret.flag)
    /\ Returned("clear") => (getLength(Now) = Outcome(Now, RetNum(0)) /\ isEmpty(Now).ret.flag)

ClearWitness ==
    /\ Returned("clear") /\ Len(pre) = 3 /\ pre[1] = Undefined /\ Now = <<>>

Queries == {"getItem", "peek", "getLength", "isEmpty", "contains", "indexOf",
            "lastIndexOf", "allIndexesOf", "filter", "clone", "cloneDistinct"}

\* C17: getItem, peek, getLength, isEmpty, contains, indexOf, lastIndexOf,
\* allIndexesOf, filter, clone and cloneDistinct leave the contents and the
\* length of the queue as they were; filter(p) returns the elements at the
\* positions allIndexesOf(_, p) returns, in that order.
QueriesHaveNoEffect ==
    /\ (pc = "returned" /\ op \in Queries) => (Now = pre /\ Len(Now) = Len(pre))
    /\ Returned("filter") =>
           LET ix == allIndexesOf(pre, Undefined, args.cb).ret.seq
           IN  ret = RetArray([k \in 1..Len(ix) |-> pre[ix[k].val + 1]])

FilterWitness ==
    /\ Returned("filter") /\ args.cb = "isNumber"
    /\ pre = <<Num(2), CloneBoth, Num(1)>> /\ ret = RetArray(<<Num(2), Num(1)>>)

\* e exposes neither clone nor cloneDistinct
Plain(e) == ~HasMethod(e, "clone") /\ ~HasMethod(e, "cloneDistinct")

\* e is what cloneDistinct() stores for the kept element d
IsMaterializedFrom(e, d, old) ==
    IF HasMethod(d, "cloneDistinct")
    THEN e = [d EXCEPT !.id = e.id, !.via = "cloneDistinct"] /\ e.id \notin old
    ELSE IF HasMethod(d, "clone")
         THEN e = [d EXCEPT !.id = e.id, !.via = "clone"] /\ e.id \notin old
         ELSE e = d

\* s with every later duplicate removed
RECURSIVE WithoutDuplicates(_, _)
WithoutDuplicates(s, kept) ==
    IF Len(s) = 0 THEN kept
    ELSE WithoutDuplicates(Tail(s),
             IF \E k \in 1..Len(kept) : StrictEq(kept[k], Head(s)) THEN kept
             ELSE Append(kept, Head(s)))

\* the source elements cloneDistinct() keeps: those not === to an entry
\* stored before them
RECURSIVE KeptSources(_, _, _)
KeptSources(s, result, k) ==
    IF k > Len(result) \/ Len(s) = 0 THEN <<>>
    ELSE IF \E j \in 1..(k - 1) : StrictEq(result[j], Head(s))
         THEN KeptSources(Tail(s), result, k)
         ELSE <<Head(s)>> \o KeptSources(Tail(s), result, k + 1)

\* C18: cloneDistinct() stores, for each element it keeps, the element's
\* cloneDistinct() if the element exposes cloneDistinct, else its clone()
\* if it exposes clone, else the element itself; on a queue of values that
\* expose neither, the result is the source with later duplicates removed.
CloneDistinctByPriority ==
    Returned("cloneDistinct") =>
        /\ ret.kind = "queue"
        /\ LET src == KeptSources(pre, ret.seq, 1)
           IN  /\ Len(src) = Len(ret.seq)
               /\ \A k \in 1..Len(ret.seq) : IsMaterializedFrom(ret.seq[k], src[k], Ids(pre))
        /\ (\A i \in 1..Len(pre) : Plain(pre[i])) => ret.seq = WithoutDuplicates(pre, <<>>)

\* the same, on the queues that hold no undefined
CloneDistinctByPriorityWhereReturns ==
    (Returned("cloneDistinct") /\ ~HasUndefined(pre)) =>
        /\ ret.kind = "queue"
        /\ LET src == KeptSources(pre, ret.seq, 1)
           IN  /\ Len(src) = Len(ret.seq)
               /\ \A k \in 1..Len(ret.seq) : IsMaterializedFrom(ret.seq[k], src[k], Ids(pre))
        /\ (\A i \in 1..Len(pre) : Plain(pre[i])) => ret.seq = WithoutDuplicates(pre, <<>>)

\* dequeue() called until it returns undefined: what the caller received,
\* and what is left in the queue
RECURSIVE Drain(_, _)
Drain(s, received) ==
    LET d == dequeue(s)
    IN  IF d.ret = RetElem(Undefined) THEN [received |-> received, left |-> d.items]
        ELSE Drain(d.items, Append(received, d.ret.elem))

\* the elements of s before its first undefined
RECURSIVE BeforeUndefined(_)
BeforeUndefined(s) ==
    IF Len(s) = 0 \/ Head(s) = Undefined THEN <<>>
    ELSE <<Head(s)>> \o BeforeUndefined(Tail(s))

\* C19 as stated: dequeue() and peek() return undefined exactly when the
\* queue was empty at the call, so that a caller who dequeues until
\* undefined is returned has received every stored element.
AbsentIffEmpty ==
    /\ (Returned("dequeue") \/ Returned("peek")) =>
           ((ret = RetElem(Undefined)) = (Len(pre) = 0))
    /\ (Returned("dequeue") /\ ret = RetElem(Undefined)) => Now = <<>>

\* C19 as amended: dequeue() and peek() return undefined exactly when the
\* queue was empty at the call or its head element is undefined; a caller
\* who dequeues until undefined is returned has received the elements
\* before the first undefined one, which is every stored element when no
\* stored element is undefined.
AbsentIffEmptyOrUndefinedHead ==
    /\ (Returned("dequeue") \/ Returned("peek")) =>
           /\ ret.kind = "value"
           /\ (ret.elem = Undefined) = (Len(pre) = 0 \/ pre[1] = Undefined)
    /\ \A t \in {n \in QueueNames : Exists(n)} :
           LET d == Drain(Items(t), <<>>)
           IN  /\ d.received = BeforeUndefined(Items(t))
               /\ ~HasUndefined(Items(t)) => (d.received = Items(t) /\ d.left = <<>>)

UndefinedHeadWitness ==
    /\ Returned("dequeue") /\ Len(pre) = 2 /\ pre[1] = Undefined
    /\ ret = RetElem(Undefined) /\ Now = <<Num(1)>>

====
